---- MODULE Spec2Model ----
(***************************************************************************)
(* A model of the analysis scripts of Heterogeneous_SNNs:                  *)
(*   src/snn_function_generation.py  (reservoir training, kernel           *)
(*                                    regression, evaluation)              *)
(*   src/bifurcation_{rs,fs,eic_shadowing}.py  (continuation scripts)      *)
(*                                                                         *)
(* The script is a sequential pipeline.  Each stage is modelled as its own *)
(* state machine over the stage's variables, with the stage's inputs drawn *)
(* from bounded sets; the variables of the other stages stay idle.         *)
(*                                                                         *)
(* Python lists and numpy index values are 0-based; TLA+ sequences are     *)
(* 1-based, so the element with Python index i is at position i+1.         *)
(***************************************************************************)
EXTENDS Integers, Sequences, FiniteSets, TLC

VARIABLES
    \* trial partition (snn_function_generation.py, lines 133-136)
    n_stims, n_tests, test_trials, train_trials, part_i, part_pc,
    \* dist (lines 27-33)
    dist_x, dist_method, dist_zero_val, dist_inverse_pow, dist_result, dist_pc,
    \* auto_dir (bifurcation_*.py)
    script, argv, auto_dir, argv_pc,
    \* mse (lines 58-61)
    mse_x, mse_y, mse_c, mse_xy, mse_cxy, mse_xcy, mse_pc,
    \* wash-out and get_signals (lines 36-55, 171-186)
    stim_onsets, cycle_steps, sr, stim_width, inp_indices,
    net_state, net_calls, y0, sig_i, inp, obs, signals, inputs, waveforms, sig_pc,
    \* kernel estimation and evaluation (lines 186-229), for two runs of the script
    runs, ker_t, ker_pc,
    \* the continuation runs and plots of a bifurcation script (bifurcation_*.py)
    conts, bindings, plots, bif_pc, bif_exc,
    \* lorentzian (lines 17-24)
    lor_n, lor_lb, lor_ub, samples, lor_i, lor_s, lor_redrawn, lor_result, lor_pc

partVars == <<n_stims, n_tests, test_trials, train_trials, part_i, part_pc>>
distVars == <<dist_x, dist_method, dist_zero_val, dist_inverse_pow, dist_result, dist_pc>>
argvVars == <<script, argv, auto_dir, argv_pc>>
mseVars == <<mse_x, mse_y, mse_c, mse_xy, mse_cxy, mse_xcy, mse_pc>>
sigVars == <<stim_onsets, cycle_steps, sr, stim_width, inp_indices,
             net_state, net_calls, y0, sig_i, inp, obs, signals, inputs, waveforms, sig_pc>>
kerVars == <<runs, ker_t, ker_pc>>
bifVars == <<conts, bindings, plots, bif_pc, bif_exc>>
lorVars == <<lor_n, lor_lb, lor_ub, samples, lor_i, lor_s, lor_redrawn, lor_result, lor_pc>>
vars == <<partVars, distVars, argvVars, mseVars, sigVars, kerVars, bifVars, lorVars>>

(***************************************************************************)
(* Bounds of the model.  The script's sizes (N = 1000 channels, n_stims =  *)
(* 50 trials, cycle_steps = 25000, stim_width = 2000, init_steps = 200000) *)
(* and its regulariser gamma = 1e-3 are scaled down to small integers.     *)
(***************************************************************************)
MaxStims == 8
MaxTests == 4
MaxX == 2
MaxPow == 2
MaxArgLen == 3
MaxLen == 2
MaxVal == 1
MaxC == 2
N == 2
MaxOnsets == 2
MaxOnset == 2
MaxCycle == 3
MaxWidth == 2
init_steps == 1
TrialCount == 4
TestStride == 3
KernelSteps == 2
MaxResponse == 2
MaxBound == 2
MaxN == 2
gamma == 1

(***************************************************************************)
(* Program constants.                                                      *)
(***************************************************************************)
alpha == 80

(***************************************************************************)
(* Arithmetic.  numpy computes in float64; the model computes in exact     *)
(* rationals extended with the IEEE specials a division by zero produces:  *)
(* [n, d] with d > 0 and gcd(n, d) = 1 is the number n/d, and d = 0 is     *)
(* nan (n = 0), +inf (n = 1) or -inf (n = -1).                             *)
(***************************************************************************)
Abs(a) == IF a < 0 THEN -a ELSE a

Sgn(a) == IF a > 0 THEN 1 ELSE IF a < 0 THEN -1 ELSE 0

RECURSIVE GCD(_, _)
GCD(a, b) == IF b = 0 THEN a ELSE GCD(b, a % b)

Rat(n, d) ==
    IF d = 0 THEN [n |-> Sgn(n), d |-> 0]
    ELSE LET g == GCD(Abs(n), Abs(d))
         IN  [n |-> Sgn(d) * (n \div g), d |-> Abs(d) \div g]

NaN == [n |-> 0, d |-> 0]
Zero == [n |-> 0, d |-> 1]
One == [n |-> 1, d |-> 1]
Int2Rat(k) == [n |-> k, d |-> 1]
IsNaN(a) == a.d = 0 /\ a.n = 0
IsInf(a) == a.d = 0 /\ a.n # 0

RNeg(a) == [n |-> -a.n, d |-> a.d]

RMul(a, b) ==
    IF IsNaN(a) \/ IsNaN(b) THEN NaN
    ELSE IF IsInf(a) \/ IsInf(b)
         THEN Rat(Sgn(a.n) * Sgn(b.n), 0)        \* inf * 0 = nan
    ELSE LET g1 == GCD(Abs(a.n), b.d)
             g2 == GCD(Abs(b.n), a.d)
         IN  Rat((a.n \div g1) * (b.n \div g2), (a.d \div g2) * (b.d \div g1))

RAdd(a, b) ==
    IF IsNaN(a) \/ IsNaN(b) THEN NaN
    ELSE IF IsInf(a) /\ IsInf(b) THEN (IF a.n = b.n THEN a ELSE NaN)
    ELSE IF IsInf(a) THEN a
    ELSE IF IsInf(b) THEN b
    ELSE LET g == GCD(a.d, b.d)
             l == (a.d \div g) * b.d
         IN  Rat(a.n * (l \div a.d) + b.n * (l \div b.d), l)

RSub(a, b) == RAdd(a, RNeg(b))

RDiv(a, b) ==
    IF IsNaN(a) \/ IsNaN(b) THEN NaN
    ELSE IF IsInf(b) THEN (IF IsInf(a) THEN NaN ELSE Zero)
    ELSE IF b.n = 0 THEN Rat(Sgn(a.n), 0)         \* x/0 = +-inf, 0/0 = nan
    ELSE IF IsInf(a) THEN Rat(Sgn(a.n) * Sgn(b.n), 0)
    ELSE RMul(a, Rat(b.d, b.n))

\* a <= b for finite a and b
RLeq(a, b) == a.n * b.d <= b.n * a.d

RECURSIVE IntPow(_, _)
IntPow(x, p) == IF p = 0 THEN 1 ELSE x * IntPow(x, p - 1)

(***************************************************************************)
(* Python list helpers.                                                    *)
(***************************************************************************)
\* np.arange(start, stop, step) for step >= 1, as a list
Arange(start, stop, step) ==
    LET len == IF stop <= start THEN 0 ELSE ((stop - start) + step - 1) \div step
    IN  [k \in 1..len |-> start + (k - 1) * step]

\* list.index(v): the (0-based) position of the first element equal to v
ListIndex(l, v) == (CHOOSE p \in 1..Len(l) :
                       l[p] = v /\ \A q \in 1..(p - 1) : l[q] # v) - 1

\* list.pop(p) for a 0-based position p: the list without that element
ListPop(l, p) == [k \in 1..(Len(l) - 1) |-> IF k <= p THEN l[k] ELSE l[k + 1]]

SeqToSet(l) == {l[k] : k \in 1..Len(l)}

NoDuplicates(l) == \A p, q \in 1..Len(l) : p # q => l[p] # l[q]

(***************************************************************************)
(* Trial partition: snn_function_generation.py, lines 133-136.             *)
(*   test_trials = list(np.arange(0, n_stims, n_tests))                    *)
(*   train_trials = list(np.arange(0, n_stims))                            *)
(*   for t in test_trials:                                                 *)
(*       train_trials.pop(train_trials.index(t))                           *)
(***************************************************************************)
\* a slip the loop body could contain: pop(t) removes the element at
\* position t, not the element equal to t
PopAtValue(l, t) == IF t < Len(l) THEN ListPop(l, t) ELSE l

\* the loop body, line 136
PopTrial(l, t) == ListPop(l, ListIndex(l, t))

PartInit ==
    /\ n_stims \in 1..MaxStims
    /\ n_tests \in 1..MaxTests
    /\ test_trials = Arange(0, n_stims, n_tests)
    /\ train_trials = Arange(0, n_stims, 1)
    /\ part_i = 1
    /\ part_pc = "loop"

PartIdle ==
    /\ n_stims = 0
    /\ n_tests = 0
    /\ test_trials = <<>>
    /\ train_trials = <<>>
    /\ part_i = 0
    /\ part_pc = "idle"

\* one iteration of the removal loop
PartPop ==
    /\ part_pc = "loop"
    /\ part_i <= Len(test_trials)
    /\ train_trials' = PopTrial(train_trials, test_trials[part_i])
    /\ part_i' = part_i + 1
    /\ part_pc' = IF part_i = Len(test_trials) THEN "done" ELSE "loop"
    /\ UNCHANGED <<n_stims, n_tests, test_trials>>

(***************************************************************************)
(* dist: snn_function_generation.py, lines 27-33.                          *)
(* The outcome of a call is [kind |-> "return", val |-> v] or              *)
(* [kind |-> "raise", exc |-> e].  np.exp(-x) is kept symbolic.            *)
(***************************************************************************)
Methods == {"inverse", "exp", "gauss", "Inverse", ""}

\* a slip: the range test of x made before the method name is looked at
DistRangeFirst(x, method, zero_val, inverse_pow) ==
    IF x <= 0 THEN [kind |-> "return", val |-> zero_val]
    ELSE IF method = "inverse"
         THEN [kind |-> "return", val |-> Rat(1, IntPow(x, inverse_pow))]
    ELSE IF method = "exp"
         THEN [kind |-> "return", val |-> [exp |-> -x]]
    ELSE [kind |-> "raise", exc |-> "ValueError"]

dist(x, method, zero_val, inverse_pow) ==
    IF method = "inverse"
    THEN [kind |-> "return",
          val |-> IF x > 0 THEN Rat(1, IntPow(x, inverse_pow)) ELSE zero_val]
    ELSE IF method = "exp"
    THEN [kind |-> "return",
          val |-> IF x > 0 THEN [exp |-> -x] ELSE zero_val]
    ELSE [kind |-> "raise", exc |-> "ValueError"]

DistInit ==
    /\ dist_x \in (-MaxX)..MaxX
    /\ dist_method \in Methods
    /\ dist_zero_val \in {Zero, One}
    /\ dist_inverse_pow \in 0..MaxPow
    /\ dist_result = [kind |-> "none"]
    /\ dist_pc = "call"

DistIdle ==
    /\ dist_x = 0
    /\ dist_method = ""
    /\ dist_zero_val = Zero
    /\ dist_inverse_pow = 0
    /\ dist_result = [kind |-> "none"]
    /\ dist_pc = "idle"

DistCall ==
    /\ dist_pc = "call"
    /\ dist_result' = dist(dist_x, dist_method, dist_zero_val, dist_inverse_pow)
    /\ dist_pc' = "done"
    /\ UNCHANGED <<dist_x, dist_method, dist_zero_val, dist_inverse_pow>>

(***************************************************************************)
(* auto_dir: bifurcation_rs.py lines 18-19, bifurcation_fs.py lines 17-18, *)
(* bifurcation_eic_shadowing.py lines 17-18 (the same two lines).          *)
(*   path = sys.argv[-1]                                                   *)
(*   auto_dir = path if type(path) is str and ".py" not in path            *)
(*              else "~/PycharmProjects/auto-07p"                          *)
(* A string is the sequence of its characters.                             *)
(***************************************************************************)
Scripts == {"rs", "fs", "eic_shadowing"}

\* sys.argv[0] when the script is run as "python bifurcation_<script>.py"
ScriptName(s) ==
    <<"b", "i", "f", "u", "r", "c", "a", "t", "i", "o", "n", "_">> \o
    (CASE s = "rs" -> <<"r", "s">>
       [] s = "fs" -> <<"f", "s">>
       [] s = "eic_shadowing" ->
            <<"e", "i", "c", "_", "s", "h", "a", "d", "o", "w", "i", "n", "g">>) \o
    <<".", "p", "y">>

DotPy == <<".", "p", "y">>

DefaultAutoDir ==
    <<"~", "/", "P", "y", "c", "h", "a", "r", "m", "P", "r", "o", "j", "e", "c",
      "t", "s", "/", "a", "u", "t", "o", "-", "0", "7", "p">>

\* the characters an argument is built from in the model
PathChars == {"/", "a", ".", "p", "y"}

StringsUpTo(n) == UNION {[1..k -> PathChars] : k \in 0..n}

\* Python's `sub in s` for strings
StrContains(s, sub) ==
    \E k \in 1..(Len(s) - Len(sub) + 1) : SubSeq(s, k, k + Len(sub) - 1) = sub

\* a slip: the argument taken as is, without the ".py" test
AutoDirNoTest(av) ==
    IF av = <<>> THEN [kind |-> "raise", exc |-> "IndexError"]
    ELSE [kind |-> "return", val |-> av[Len(av)]]

\* the two lines; every element of sys.argv is a str
AutoDir(av) ==
    IF av = <<>> THEN [kind |-> "raise", exc |-> "IndexError"]
    ELSE LET path == av[Len(av)]
         IN  [kind |-> "return",
              val |-> IF ~StrContains(path, DotPy) THEN path ELSE DefaultAutoDir]

\* the command lines: the script alone, or the script and one argument
ArgvInit ==
    /\ script \in Scripts
    /\ \/ argv = <<ScriptName(script)>>
       \/ \E arg \in StringsUpTo(MaxArgLen) : argv = <<ScriptName(script), arg>>
    /\ auto_dir = [kind |-> "none"]
    /\ argv_pc = "start"

ArgvIdle ==
    /\ script = "none"
    /\ argv = <<>>
    /\ auto_dir = [kind |-> "none"]
    /\ argv_pc = "idle"

ArgvStep ==
    /\ argv_pc = "start"
    /\ auto_dir' = AutoDir(argv)
    /\ argv_pc' = "done"
    /\ UNCHANGED <<script, argv>>

(***************************************************************************)
(* numpy arrays: [shape, data] with the data in row-major order.           *)
(***************************************************************************)
RECURSIVE RSum(_)
RSum(s) == IF s = <<>> THEN Zero ELSE RAdd(s[1], RSum(Tail(s)))

\* np.max of finite values
RECURSIVE RMax(_)
RMax(s) == IF Len(s) = 1 THEN s[1]
           ELSE LET m == RMax(Tail(s)) IN IF RLeq(m, s[1]) THEN s[1] ELSE m

Array1(v) == [shape |-> <<Len(v)>>, data |-> v]

\* a.squeeze(): the axes of length 1 removed
Squeeze(a) == [shape |-> SelectSeq(a.shape, LAMBDA n : n # 1), data |-> a.data]

\* np.max(a.flatten())
ArrMax(a) == RMax(a.data)

\* a / m and c * a for a scalar
ArrDiv(a, m) == [shape |-> a.shape, data |-> [k \in DOMAIN a.data |-> RDiv(a.data[k], m)]]
ArrScale(c, a) == [shape |-> a.shape, data |-> [k \in DOMAIN a.data |-> RMul(c, a.data[k])]]

IsSuffix(s, t) == Len(s) <= Len(t) /\ SubSeq(t, Len(t) - Len(s) + 1, Len(t)) = s

\* numpy broadcasting of two arrays without axes of length 1: the shape of
\* one is a suffix of the shape of the other, and the smaller is repeated
Broadcastable(a, b) == IsSuffix(a.shape, b.shape) \/ IsSuffix(b.shape, a.shape)

ArrSub(a, b) ==
    LET big == IF Len(a.shape) >= Len(b.shape) THEN a ELSE b
        na == Len(a.data)
        nb == Len(b.data)
    IN  [shape |-> big.shape,
         data |-> [k \in DOMAIN big.data |->
                      RSub(a.data[((k - 1) % na) + 1], b.data[((k - 1) % nb) + 1])]]

\* np.mean(a ** 2)
MeanSquare(a) ==
    RDiv(RSum([k \in DOMAIN a.data |-> RMul(a.data[k], a.data[k])]),
         Int2Rat(Len(a.data)))

(***************************************************************************)
(* mse: snn_function_generation.py, lines 58-61.                           *)
(*   x = x.squeeze() / np.max(x.flatten())                                 *)
(*   y = y.squeeze() / np.max(y.flatten())                                 *)
(*   return float(np.mean((x - y)**2))                                     *)
(* numpy divides by zero without raising (0/0 = nan, x/0 = +-inf).         *)
(***************************************************************************)
\* a slip: x compared without its normalisation
MseRawX(x, y) ==
    LET xn == Squeeze(x)
        yn == ArrDiv(Squeeze(y), ArrMax(y))
    IN  IF ~Broadcastable(xn, yn) THEN [kind |-> "raise", exc |-> "ValueError"]
        ELSE [kind |-> "return", val |-> MeanSquare(ArrSub(xn, yn))]

mse(x, y) ==
    LET xn == ArrDiv(Squeeze(x), ArrMax(x))
        yn == ArrDiv(Squeeze(y), ArrMax(y))
    IN  IF ~Broadcastable(xn, yn) THEN [kind |-> "raise", exc |-> "ValueError"]
        ELSE [kind |-> "return", val |-> MeanSquare(ArrSub(xn, yn))]

Vectors == UNION {[1..n -> {Int2Rat(v) : v \in (-1)..MaxVal}] : n \in 1..MaxLen}

MseInit ==
    /\ mse_x \in {Array1(v) : v \in Vectors}
    /\ mse_y \in {Array1(v) : v \in Vectors}
    /\ mse_c \in {Rat(p, q) : p, q \in 1..MaxC}
    /\ mse_xy = [kind |-> "none"]
    /\ mse_cxy = [kind |-> "none"]
    /\ mse_xcy = [kind |-> "none"]
    /\ mse_pc = "call"

MseIdle ==
    /\ mse_x = Array1(<<>>)
    /\ mse_y = Array1(<<>>)
    /\ mse_c = One
    /\ mse_xy = [kind |-> "none"]
    /\ mse_cxy = [kind |-> "none"]
    /\ mse_xcy = [kind |-> "none"]
    /\ mse_pc = "idle"

\* mse on x and y, and on each of them scaled by c
MseCall ==
    /\ mse_pc = "call"
    /\ mse_xy' = mse(mse_x, mse_y)
    /\ mse_cxy' = mse(ArrScale(mse_c, mse_x), mse_y)
    /\ mse_xcy' = mse(mse_x, ArrScale(mse_c, mse_y))
    /\ mse_pc' = "done"
    /\ UNCHANGED <<mse_x, mse_y, mse_c>>

(***************************************************************************)
(* Matrices of get_signals: a sequence of rows (time), each a sequence of  *)
(* N channel values.                                                       *)
(***************************************************************************)
Min(a, b) == IF a < b THEN a ELSE b

\* int(np.round(a / b)) for a >= 0 and b > 0: numpy rounds half to even
Round(a, b) ==
    LET q == a \div b
        r == a % b
    IN  IF 2 * r < b THEN q
        ELSE IF 2 * r > b THEN q + 1
        ELSE IF q % 2 = 0 THEN q ELSE q + 1

\* np.zeros((rows, cols))
Zeros(rows, cols) == [t \in 1..rows |-> [c \in 1..cols |-> 0]]

\* m[lo:hi, idx] = v for 0 <= lo: the slice stops at the last row
SetBlock(m, lo, hi, idx, v) ==
    [t \in DOMAIN m |->
        [c \in DOMAIN m[t] |->
            IF (lo <= t - 1) /\ (t - 1 < hi) /\ ((c - 1) \in SeqToSet(idx))
            THEN v ELSE m[t][c]]]

\* s[-n:] : the last n elements, every element when n = 0 or n >= len(s)
LastN(s, n) ==
    IF n = 0 \/ n >= Len(s) THEN s ELSE SubSeq(s, Len(s) - n + 1, Len(s))

\* s[::step] : the elements with index 0, step, 2*step, ...
EveryNth(s, step) ==
    [k \in 1..((Len(s) + step - 1) \div step) |-> s[(k - 1) * step + 1]]

\* m.T for a matrix with at least one row
Transpose(m) == [c \in DOMAIN m[1] |-> [t \in DOMAIN m |-> m[t][c]]]

\* gaussian_filter1d(m, sigma, axis=0) with scipy's default mode "reflect"
\* (the edge sample is repeated).  The kernel of the model is the 3-tap
\* integer kernel (1, 2, 1) in place of the normalised kernel of radius
\* 4*sigma: like the original it keeps the shape and mixes neighbours in time.
GaussianFilterAxis0(m) ==
    LET n == Len(m)
        at(t, c) == m[IF t < 1 THEN 1 ELSE IF t > n THEN n ELSE t][c]
    IN  [t \in DOMAIN m |->
            [c \in DOMAIN m[t] |-> at(t - 1, c) + 2 * m[t][c] + at(t + 1, c)]]

(***************************************************************************)
(* The external simulator (rectipy.Network), by its interface: reset(y)    *)
(* puts the network in state y; run(inputs, sampling_steps) drives it with *)
(* the rows of inputs and returns one recorded row per sampling_steps      *)
(* steps, starting with step 0.  The state of the network is abstract: the *)
(* history of the runs (their lengths) since its construction, and a       *)
(* recorded row is the input row plus a term that depends on the state the *)
(* run started in.                                                         *)
(***************************************************************************)
NetInitial == <<>>
NetAfterRun(state, rows) == Append(state, rows)
NetOutput(state, m, sampling_steps) ==
    LET rec == EveryNth(m, sampling_steps)
    IN  [t \in DOMAIN rec |-> [c \in DOMAIN rec[t] |-> rec[t][c] + Len(state)]]

(***************************************************************************)
(* get_signals: snn_function_generation.py, lines 36-55, and the wash-out  *)
(* run that precedes it, lines 171-186.                                    *)
(***************************************************************************)
\* line 42: start
Start == Round(cycle_steps, sr)

\* a slip: the pulse written at the start of the matrix, not at the onset
RawInputPulseAtZero(stim) ==
    SetBlock(Zeros(stim + cycle_steps, N), 0, stim_width, inp_indices, alpha)

\* lines 45-46: the input of one trial before smoothing
RawInput(stim) ==
    SetBlock(Zeros(stim + cycle_steps, N), stim, stim + stim_width, inp_indices, alpha)

OnsetLists == UNION {[1..k -> 0..MaxOnset] : k \in 0..MaxOnsets}

\* np.arange(lo, hi) with 0 <= lo < hi <= N
IndexRanges == {Arange(lo, hi, 1) : lo \in 0..(N - 1), hi \in 1..N} \ {<<>>}

\* The arguments of get_signals.  A cycle holds at least one sampling step
\* (sr <= cycle_steps; the script has cycle_steps = 25000 and sr = 10).
SigInit ==
    /\ stim_onsets \in OnsetLists
    /\ cycle_steps \in 1..MaxCycle
    /\ sr \in 1..cycle_steps
    /\ stim_width \in 1..MaxWidth
    /\ inp_indices \in IndexRanges
    /\ net_state = NetInitial
    /\ net_calls = <<>>
    /\ y0 = <<>>
    /\ sig_i = 0
    /\ inp = <<>>
    /\ obs = <<>>
    /\ signals = <<>>
    /\ inputs = <<>>
    /\ waveforms = <<>>
    /\ sig_pc = "washout"

SigIdle ==
    /\ stim_onsets = <<>>
    /\ cycle_steps = 0
    /\ sr = 0
    /\ stim_width = 0
    /\ inp_indices = <<>>
    /\ net_state = NetInitial
    /\ net_calls = <<>>
    /\ y0 = <<>>
    /\ sig_i = 0
    /\ inp = <<>>
    /\ obs = <<>>
    /\ signals = <<>>
    /\ inputs = <<>>
    /\ waveforms = <<>>
    /\ sig_pc = "idle"

\* lines 172-176: net.run(inputs=np.zeros((init_steps, 1)), ...)
WashOut ==
    /\ sig_pc = "washout"
    /\ net_calls' = Append(net_calls, [op |-> "run", pre |-> net_state, rows |-> init_steps])
    /\ net_state' = NetAfterRun(net_state, init_steps)
    /\ sig_pc' = "capture"
    /\ UNCHANGED <<stim_onsets, cycle_steps, sr, stim_width, inp_indices,
                   y0, sig_i, inp, obs, signals, inputs, waveforms>>

\* line 177: y0 = net.state; line 186 enters get_signals (lines 40-44)
CaptureY0 ==
    /\ sig_pc = "capture"
    /\ y0' = net_state
    /\ sig_i' = 1
    /\ sig_pc' = IF stim_onsets = <<>> THEN "done" ELSE "build"
    /\ UNCHANGED <<stim_onsets, cycle_steps, sr, stim_width, inp_indices,
                   net_state, net_calls, inp, obs, signals, inputs, waveforms>>

\* lines 45-47: the input of trial sig_i, then its smoothing
TrialBuild ==
    /\ sig_pc = "build"
    /\ waveforms' = Append(waveforms, RawInput(stim_onsets[sig_i]))
    /\ inp' = GaussianFilterAxis0(RawInput(stim_onsets[sig_i]))
    /\ sig_pc' = "reset"
    /\ UNCHANGED <<stim_onsets, cycle_steps, sr, stim_width, inp_indices,
                   net_state, net_calls, y0, sig_i, obs, signals, inputs>>

\* a slip: the loop without its reset
TrialNoReset ==
    /\ sig_pc = "reset"
    /\ sig_pc' = "run"
    /\ UNCHANGED <<stim_onsets, cycle_steps, sr, stim_width, inp_indices,
                   net_state, net_calls, y0, sig_i, inp, obs, signals, inputs, waveforms>>

\* line 48: net.reset(y0)
TrialReset ==
    /\ sig_pc = "reset"
    /\ net_calls' = Append(net_calls, [op |-> "reset", state |-> y0])
    /\ net_state' = y0
    /\ sig_pc' = "run"
    /\ UNCHANGED <<stim_onsets, cycle_steps, sr, stim_width, inp_indices,
                   y0, sig_i, inp, obs, signals, inputs, waveforms>>

\* line 49: obs = net.run(inputs=inp, sampling_steps=sr, ...)
TrialRun ==
    /\ sig_pc = "run"
    /\ net_calls' = Append(net_calls, [op |-> "run", pre |-> net_state, rows |-> Len(inp)])
    /\ obs' = NetOutput(net_state, inp, sr)
    /\ net_state' = NetAfterRun(net_state, Len(inp))
    /\ sig_pc' = "record"
    /\ UNCHANGED <<stim_onsets, cycle_steps, sr, stim_width, inp_indices,
                   y0, sig_i, inp, signals, inputs, waveforms>>

\* a slip: the recorded rows kept whole
KeepAll(s, n) == s

\* obs.to_numpy("out")[-start:, :] and inp[::sr, ...][-start:]
Truncate(s, n) == LastN(s, n)

\* lines 50-52: the signal and the input trace of the trial
TrialRecord ==
    /\ sig_pc = "record"
    /\ signals' = Append(signals,
                         Transpose(GaussianFilterAxis0(Truncate(obs, Start))))
    /\ inputs' = Append(inputs,
                        Truncate(EveryNth([t \in DOMAIN inp |-> inp[t][inp_indices[1] + 1]], sr),
                                 Start))
    /\ sig_i' = sig_i + 1
    /\ sig_pc' = IF sig_i = Len(stim_onsets) THEN "done" ELSE "build"
    /\ UNCHANGED <<stim_onsets, cycle_steps, sr, stim_width, inp_indices,
                   net_state, net_calls, y0, inp, obs, waveforms>>

(***************************************************************************)
(* Matrices of the kernel estimator: sequences of rows with rational       *)
(* entries.  A signal is a matrix of N rows (channels) and KernelSteps     *)
(* columns (time).                                                         *)
(***************************************************************************)
Eye(n) == [i \in 1..n |-> [j \in 1..n |-> IF i = j THEN One ELSE Zero]]

MatAdd(a, b) == [i \in DOMAIN a |-> [j \in DOMAIN a[i] |-> RAdd(a[i][j], b[i][j])]]

MatSub(a, b) == [i \in DOMAIN a |-> [j \in DOMAIN a[i] |-> RSub(a[i][j], b[i][j])]]

MatScale(c, a) == [i \in DOMAIN a |-> [j \in DOMAIN a[i] |-> RMul(c, a[i][j])]]

\* a @ b for two matrices
MatMul(a, b) ==
    [i \in DOMAIN a |->
        [j \in DOMAIN b[1] |-> RSum([k \in DOMAIN b |-> RMul(a[i][k], b[k][j])])]]

\* a @ v for a matrix and a vector, v @ a for a vector and a matrix
MatVec(a, v) == [i \in DOMAIN a |-> RSum([k \in DOMAIN v |-> RMul(a[i][k], v[k])])]
VecMat(v, a) == [j \in DOMAIN a[1] |-> RSum([k \in DOMAIN v |-> RMul(v[k], a[k][j])])]

\* np.mean(list of matrices, axis=0)
RECURSIVE MatSum(_)
MatSum(l) == IF Len(l) = 1 THEN l[1] ELSE MatAdd(l[1], MatSum(Tail(l)))
MatMean(l) == MatScale(Rat(1, Len(l)), MatSum(l))

\* np.linalg.inv, by cofactors
Minor(m, i, j) ==
    [r \in 1..(Len(m) - 1) |->
        [c \in 1..(Len(m) - 1) |->
            m[IF r < i THEN r ELSE r + 1][IF c < j THEN c ELSE c + 1]]]

RECURSIVE Det(_)
Det(m) ==
    IF Len(m) = 0 THEN One
    ELSE RSum([j \in 1..Len(m) |->
                  RMul(IF j % 2 = 1 THEN m[1][j] ELSE RNeg(m[1][j]),
                       Det(Minor(m, 1, j)))])

Inv(m) ==
    LET det == Det(m)
    IN  [i \in DOMAIN m |->
            [j \in DOMAIN m |->
                RDiv(IF (i + j) % 2 = 0 THEN Det(Minor(m, j, i))
                                         ELSE RNeg(Det(Minor(m, j, i))),
                     det)]]

\* a matrix as a numpy array of two axes
RECURSIVE Flatten(_)
Flatten(m) == IF m = <<>> THEN <<>> ELSE m[1] \o Flatten(Tail(m))
Array2(m) == [shape |-> <<Len(m), Len(m[1])>>, data |-> Flatten(m)]

(***************************************************************************)
(* Kernel estimation and evaluation: snn_function_generation.py, lines     *)
(* 186-229.  Two runs of the script are modelled side by side, runs[1] and *)
(* runs[2]; they share the trial partition and the training signals, and   *)
(* differ in the signals of the test trials and in the targets.  The       *)
(* network dimensionality (dims, lines 202-204) is used by the plots only  *)
(* and is left out.                                                        *)
(***************************************************************************)
Runs == {1, 2}

\* line 64-67: get_c
get_c(X, a) == MatAdd(MatMul(X, Transpose(X)), MatScale(a, Eye(Len(X))))

\* the signals a trial can record in the model: N x KernelSteps matrices
Response(r) ==
    [c \in 1..N |-> [t \in 1..KernelSteps |-> Int2Rat((r * c + t + r) % (N + 1))]]
Responses == {Response(r) : r \in 0..MaxResponse}

\* the target lists of the model, after lines 138-148: a unit impulse at
\* step d and an oscillation with values of both signs
Impulse(d) == [t \in 1..KernelSteps |-> IF t = d THEN One ELSE Zero]
Oscillation(d) == [t \in 1..KernelSteps |-> IF (t + d) % 2 = 0 THEN One ELSE RNeg(One)]
TargetLists == {<<Impulse(d), Oscillation(d)>> : d \in 1..KernelSteps}

\* a slip: the kernel estimated from the signals of every trial
AllSignals(sigs) == sigs

\* line 191: train_signals = [signals[idx] for idx in train_trials]
TrainSignals(sigs) == [k \in 1..Len(train_trials) |-> sigs[train_trials[k] + 1]]

\* line 192: test_signals = [signals[idx] for idx in test_trials]
TestSignals(sigs) == [k \in 1..Len(test_trials) |-> sigs[test_trials[k] + 1]]

NoRun == [signals |-> <<>>, targets |-> <<>>, train_signals |-> <<>>,
          test_signals |-> <<>>, cs |-> <<>>, s_mean |-> <<>>, s_var |-> <<>>,
          C_inv |-> <<>>, w |-> <<>>, K |-> <<>>, G |-> <<>>,
          train_predictions |-> <<>>, train_distortions |-> <<>>,
          readouts |-> <<>>, test_predictions |-> <<>>, mses |-> <<>>]

\* lines 133-134 with the trial count and the stride of the kernel stage
KerInit ==
    /\ n_stims = TrialCount
    /\ n_tests = TestStride
    /\ test_trials = Arange(0, n_stims, n_tests)
    /\ train_trials = Arange(0, n_stims, 1)
    /\ part_i = 1
    /\ part_pc = "loop"
    /\ runs = [r \in Runs |-> NoRun]
    /\ ker_t = 0
    /\ ker_pc = "simulate"

KerIdle ==
    /\ runs = <<>>
    /\ ker_t = 0
    /\ ker_pc = "idle"

\* lines 138-148 and 186: the targets and the recorded signals of the two
\* runs.  The runs record the same signals in the training trials.  Run 1 is
\* the reference: its test trials record Response(0) and its targets are
\* the first target list; run 2 records any signals in the test trials and
\* has any target list.
Recorded(train, test) ==
    [i \in 1..n_stims |->
        IF (i - 1) \in SeqToSet(train_trials)
        THEN train[ListIndex(train_trials, i - 1) + 1]
        ELSE test[ListIndex(test_trials, i - 1) + 1]]

Simulate ==
    /\ ker_pc = "simulate"
    /\ part_pc = "done"
    /\ \E train \in [1..Len(train_trials) -> Responses],
          test \in [1..Len(test_trials) -> Responses],
          t2 \in TargetLists :
           runs' = [r \in Runs |->
                       [runs[r] EXCEPT
                           !.signals =
                               IF r = 1
                               THEN Recorded(train, [k \in 1..Len(test_trials) |-> Response(0)])
                               ELSE Recorded(train, test),
                           !.targets =
                               IF r = 1 THEN <<Impulse(1), Oscillation(1)>> ELSE t2]]
    /\ ker_pc' = "extract"
    /\ UNCHANGED <<ker_t, partVars>>

\* lines 191-192
Extract ==
    /\ ker_pc = "extract"
    /\ runs' = [r \in Runs |->
                   [runs[r] EXCEPT !.train_signals = TrainSignals(runs[r].signals),
                                   !.test_signals = TestSignals(runs[r].signals)]]
    /\ ker_pc' = "covariance"
    /\ UNCHANGED <<ker_t, partVars>>

\* lines 198-207: cs
Covariance ==
    /\ ker_pc = "covariance"
    /\ runs' = [r \in Runs |->
                   [runs[r] EXCEPT !.cs =
                       [k \in DOMAIN runs[r].train_signals |->
                           get_c(runs[r].train_signals[k], Int2Rat(gamma))]]]
    /\ ker_pc' = "mean"
    /\ UNCHANGED <<ker_t, partVars>>

\* a slip: s_var as the mean of the squared deviations
MeanOfSquares(run) ==
    [run EXCEPT
        !.s_mean = MatMean(run.train_signals),
        !.s_var = MatMean([k \in DOMAIN run.train_signals |->
                              LET dev == MatSub(run.train_signals[k],
                                                MatMean(run.train_signals))
                              IN  [i \in DOMAIN dev |->
                                      [j \in DOMAIN dev[i] |-> RMul(dev[i][j], dev[i][j])]]])]

\* lines 210-211: s_mean, s_var
MeanOf(run) ==
    [run EXCEPT
        !.s_mean = MatMean(run.train_signals),
        !.s_var = MatMean([k \in DOMAIN run.train_signals |->
                              MatSub(run.train_signals[k], MatMean(run.train_signals))])]

Mean ==
    /\ ker_pc = "mean"
    /\ runs' = [r \in Runs |-> MeanOf(runs[r])]
    /\ ker_pc' = "invert"
    /\ UNCHANGED <<ker_t, partVars>>

\* line 212: C_inv.  The mean of the cs is positive definite for gamma > 0,
\* so np.linalg.inv does not raise.
Invert ==
    /\ ker_pc = "invert"
    /\ runs' = [r \in Runs |-> [runs[r] EXCEPT !.C_inv = Inv(MatMean(runs[r].cs))]]
    /\ ker_pc' = "weights"
    /\ UNCHANGED <<ker_t, partVars>>

\* lines 213-215: w, K, G
WeightsOf(run) ==
    [run EXCEPT
        !.w = MatMul(run.C_inv, run.s_mean),
        !.K = MatMul(Transpose(run.s_mean), MatMul(run.C_inv, run.s_mean)),
        !.G = MatMul(Transpose(run.s_var), MatMul(run.C_inv, run.s_mean))]

Weights ==
    /\ ker_pc = "weights"
    /\ runs' = [r \in Runs |-> WeightsOf(runs[r])]
    /\ ker_t' = 1
    /\ ker_pc' = "evaluate"
    /\ UNCHANGED partVars

\* lines 224-229: one iteration of the loop over the targets
EvaluateOf(run, target) ==
    LET w_readout == MatVec(run.w, target)
    IN  [run EXCEPT
            !.train_predictions = Append(@, MatVec(run.K, target)),
            !.train_distortions = Append(@, MatVec(run.G, target)),
            !.readouts = Append(@, w_readout),
            !.test_predictions =
                Append(@, [k \in DOMAIN run.test_signals |->
                              VecMat(w_readout, run.test_signals[k])]),
            !.mses =
                Append(@, [k \in DOMAIN run.test_signals |->
                              mse(Array1(target), Array2(run.test_signals[k]))])]

Evaluate ==
    /\ ker_pc = "evaluate"
    /\ runs' = [r \in Runs |-> EvaluateOf(runs[r], runs[r].targets[ker_t])]
    /\ ker_t' = ker_t + 1
    /\ ker_pc' = IF ker_t = Len(runs[1].targets) THEN "done" ELSE "evaluate"
    /\ UNCHANGED partVars

(***************************************************************************)
(* The continuation runs of the bifurcation scripts.  After auto_dir is    *)
(* set, a script is a fixed sequence of a.run and a.plot_continuation      *)
(* calls on one ODESystem.  A run is issued under a name and may name its  *)
(* origin, either by the continuation object an earlier a.run returned     *)
(* (held in a Python variable) or by a name string.  conts logs the runs   *)
(* issued so far (name and origin), bindings maps each Python variable to  *)
(* the name of the run whose continuation object it holds, plots logs the  *)
(* plotted continuation names with the number of runs issued before.       *)
(***************************************************************************)
Run(name, okind, oref, bind) ==
    [op |-> "run", name |-> name, okind |-> okind, oref |-> oref, bind |-> bind]

Plot(cont) ==
    [op |-> "plot", name |-> cont, okind |-> "none", oref |-> "", bind |-> ""]

\* bifurcation_rs.py, lines 27-104
ProgramRs ==
    << Run("t", "none", "", "t_cont"),
       Run("g:1", "var", "t_cont", "c1_cont"),
       Run("D:1", "var", "c1_cont", "c2_cont"),
       Run("d:1", "var", "c2_cont", "c3_cont"),
       Run("d:2", "var", "c2_cont", "c4_cont"),
       Run("I_ext:1", "var", "c3_cont", "r1_cont"),
       Run("D/I:lp1", "var", "r1_cont", ""),
       Run("D/I:lp2", "var", "r1_cont", ""),
       Run("I_ext:2", "var", "c3_cont", "r2_cont"),
       Run("I_ext:3", "var", "c4_cont", "r3_cont"),
       Run("D/I:lp3", "var", "r2_cont", ""),
       Run("D/I:lp4", "var", "r2_cont", ""),
       Run("D/I:hb1", "var", "r3_cont", ""),
       Plot("D/I:lp1"),
       Plot("D/I:lp2"),
       Plot("D/I:lp3"),
       Plot("D/I:lp4"),
       Plot("D/I:hb1") >>

\* bifurcation_fs.py, line 37: vals = [0.5]
vals == <<Rat(1, 2)>>

\* bifurcation_fs.py, line 53
target == 0

\* a slip: the loop's run named by i instead of i+1
LoopRunNameFromZero(i) == "I:" \o ToString(i)

\* bifurcation_fs.py, line 45: name=f'I:{i+1}'
LoopRunName(i) == "I:" \o ToString(i + 1)

\* bifurcation_fs.py, lines 42-50: the two runs of every loop iteration
ProgramFsLoop ==
    [k \in 1..(2 * Len(vals)) |->
        LET i == (k - 1) \div 2
        IN  IF k % 2 = 1
            THEN Run(LoopRunName(i), "var", "c1_cont", "")
            ELSE Run("I:" \o ToString(i + 1) \o ":lc", "name", "I:" \o ToString(i + 1), "")]

\* bifurcation_fs.py, lines 26-63
ProgramFs ==
    << Run("t", "none", "", "t_cont"),
       Run("D:1", "var", "t_cont", "c1_cont") >> \o
    ProgramFsLoop \o
    << Run("D/I:hb1", "name", "I:" \o ToString(target + 1), ""),
       Plot("D/I:hb1") >>

\* bifurcation_eic_shadowing.py, lines 26-156
ProgramEic ==
    << Run("t", "none", "", "t_cont"),
       Run("I_rs:1", "var", "t_cont", "c1_cont"),
       Run("D_fs:1", "var", "c1_cont", "c2_cont"),
       Run("d_rs:1", "var", "c2_cont", "c3_cont"),
       Run("d_rs:2", "var", "c2_cont", "c4_cont"),
       Run("I_fs:1", "var", "c3_cont", "r1_cont"),
       Run("D_rs/I_fs:1:hb1", "var", "r1_cont", ""),
       Run("D_rs/I_fs:1:hb2", "var", "r1_cont", ""),
       Run("I_fs:2", "var", "c3_cont", "r2_cont"),
       Run("D_rs/I_fs:2:hb1", "var", "r2_cont", ""),
       Run("D_rs/I_fs:2:hb2", "var", "r2_cont", ""),
       Run("I_fs:2:2", "name", "D_rs/I_fs:2:hb2", ""),
       Run("D_rs/I_fs:2:lp1", "name", "I_fs:2:2", ""),
       Run("I_fs:3", "var", "c4_cont", "r3_cont"),
       Run("D_rs/I_fs:3:lp1", "var", "r3_cont", ""),
       Run("D_rs/I_fs:3:lp2", "var", "r3_cont", ""),
       Run("I_fs:4", "var", "c4_cont", "r4_cont"),
       Run("D_rs/I_fs:4:hb1", "var", "r4_cont", ""),
       Run("D_rs:4", "name", "D_rs/I_fs:4:hb1", ""),
       Run("I_fs:4:2", "name", "D_rs:4", ""),
       Run("D_rs/I_fs:4:lp1", "name", "I_fs:4:2", ""),
       Plot("D_rs/I_fs:3:lp1"),
       Plot("D_rs/I_fs:3:lp2"),
       Plot("D_rs/I_fs:4:hb1"),
       Plot("D_rs/I_fs:4:lp1"),
       Plot("D_rs/I_fs:1:hb1"),
       Plot("D_rs/I_fs:1:hb2"),
       Plot("D_rs/I_fs:2:hb1"),
       Plot("D_rs/I_fs:2:hb2"),
       Plot("D_rs/I_fs:2:lp1") >>

Program(s) ==
    CASE s = "rs" -> ProgramRs
      [] s = "fs" -> ProgramFs
      [] s = "eic_shadowing" -> ProgramEic

\* the script before its first a.run
BifInit ==
    /\ conts = <<>>
    /\ bindings = <<>>
    /\ plots = <<>>
    /\ bif_pc = 1
    /\ bif_exc = "none"

BifIdle ==
    /\ conts = <<>>
    /\ bindings = <<>>
    /\ plots = <<>>
    /\ bif_pc = 0
    /\ bif_exc = "none"

\* <sols>, <cont> = a.run(name=..., origin=...): an origin given by a
\* variable is the object the variable holds (NameError when it holds
\* none); the run is logged with its origin and its result is bound
BifRun ==
    /\ argv_pc = "done"
    /\ bif_exc = "none"
    /\ bif_pc \in 1..Len(Program(script))
    /\ LET st == Program(script)[bif_pc]
       IN  /\ st.op = "run"
           /\ IF st.okind = "var" /\ st.oref \notin DOMAIN bindings
              THEN /\ bif_exc' = "NameError"
                   /\ UNCHANGED <<conts, bindings, bif_pc>>
              ELSE /\ conts' = Append(conts,
                                      [name |-> st.name,
                                       origin |-> CASE st.okind = "none" -> ""
                                                    [] st.okind = "var" -> bindings[st.oref]
                                                    [] st.okind = "name" -> st.oref])
                   /\ bindings' = IF st.bind = "" THEN bindings
                                  ELSE [v \in DOMAIN bindings \cup {st.bind} |->
                                           IF v = st.bind THEN st.name ELSE bindings[v]]
                   /\ bif_pc' = bif_pc + 1
                   /\ UNCHANGED bif_exc
    /\ UNCHANGED <<plots, argvVars>>

\* a.plot_continuation(..., cont=<name>, ...)
BifPlot ==
    /\ argv_pc = "done"
    /\ bif_exc = "none"
    /\ bif_pc \in 1..Len(Program(script))
    /\ LET st == Program(script)[bif_pc]
       IN  /\ st.op = "plot"
           /\ plots' = Append(plots, [cont |-> st.name, issued |-> Len(conts)])
    /\ bif_pc' = bif_pc + 1
    /\ UNCHANGED <<conts, bindings, bif_exc, argvVars>>

(***************************************************************************)
(* lorentzian: snn_function_generation.py, lines 17-24.  cauchy.rvs draws  *)
(* any real number; eta and delta shape its distribution only.  The model  *)
(* measures in half units: the bounds lb and ub are even numbers and a     *)
(* draw is any number of Draws, so that between two different bounds there *)
(* is always a value to draw, as between two different reals.              *)
(* lor_redrawn records whether some draw of the call was rejected.         *)
(***************************************************************************)
Bounds == {2 * b : b \in 0..MaxBound}

Draws == (0 - 1)..(2 * MaxBound + 1)

\* a slip: the bounds themselves accepted
RejectedOutside(s, lb, ub) == s < lb \/ s > ub

\* line 21: the condition of the while loop
Rejected(s, lb, ub) == s <= lb \/ s >= ub

\* line 18: samples = np.zeros((n,))
LorInit ==
    /\ lor_n \in 0..MaxN
    /\ lor_lb \in Bounds
    /\ lor_ub \in Bounds
    /\ samples = [k \in 1..lor_n |-> 0]
    /\ lor_i = 0
    /\ lor_s = 0
    /\ lor_redrawn = FALSE
    /\ lor_result = <<>>
    /\ lor_pc = "for"

LorIdle ==
    /\ lor_n = 0
    /\ lor_lb = 0
    /\ lor_ub = 0
    /\ samples = <<>>
    /\ lor_i = 0
    /\ lor_s = 0
    /\ lor_redrawn = FALSE
    /\ lor_result = <<>>
    /\ lor_pc = "idle"

\* lines 19-20: the next i of range(n) and its first draw
LorDraw ==
    /\ lor_pc = "for"
    /\ lor_i < lor_n
    /\ \E v \in Draws : lor_s' = v
    /\ lor_pc' = "while"
    /\ UNCHANGED <<lor_n, lor_lb, lor_ub, samples, lor_i, lor_redrawn, lor_result>>

\* lines 21-22: the draw is rejected and replaced by the draw v
LorRedrawAs(v) ==
    /\ lor_pc = "while"
    /\ Rejected(lor_s, lor_lb, lor_ub)
    /\ lor_s' = v
    /\ lor_redrawn' = TRUE
    /\ UNCHANGED <<lor_n, lor_lb, lor_ub, samples, lor_i, lor_result, lor_pc>>

LorRedraw == \E v \in Draws : LorRedrawAs(v)

\* a redraw that the loop accepts
LorRedrawInRange == \E v \in Draws : ~Rejected(v, lor_lb, lor_ub) /\ LorRedrawAs(v)

\* lines 21 and 23: the loop is left and the draw stored
LorStore ==
    /\ lor_pc = "while"
    /\ ~Rejected(lor_s, lor_lb, lor_ub)
    /\ samples' = [samples EXCEPT ![lor_i + 1] = lor_s]
    /\ lor_i' = lor_i + 1
    /\ lor_pc' = "for"
    /\ UNCHANGED <<lor_n, lor_lb, lor_ub, lor_s, lor_redrawn, lor_result>>

\* line 24: return samples
LorReturn ==
    /\ lor_pc = "for"
    /\ lor_i = lor_n
    /\ lor_result' = samples
    /\ lor_pc' = "done"
    /\ UNCHANGED <<lor_n, lor_lb, lor_ub, samples, lor_i, lor_s, lor_redrawn>>

(***************************************************************************)
(* Specifications, one per stage.                                          *)
(***************************************************************************)
InitPartition == PartInit /\ DistIdle /\ ArgvIdle /\ MseIdle /\ SigIdle /\ KerIdle /\ BifIdle /\ LorIdle
NextPartition == PartPop /\ UNCHANGED <<distVars, argvVars, mseVars, sigVars, kerVars, bifVars, lorVars>>
SpecPartition == InitPartition /\ [][NextPartition]_vars

InitDist == DistInit /\ PartIdle /\ ArgvIdle /\ MseIdle /\ SigIdle /\ KerIdle /\ BifIdle /\ LorIdle
NextDist == DistCall /\ UNCHANGED <<partVars, argvVars, mseVars, sigVars, kerVars, bifVars, lorVars>>
SpecDist == InitDist /\ [][NextDist]_vars

InitArgv == ArgvInit /\ PartIdle /\ DistIdle /\ MseIdle /\ SigIdle /\ KerIdle /\ BifIdle /\ LorIdle
NextArgv == ArgvStep /\ UNCHANGED <<partVars, distVars, mseVars, sigVars, kerVars, bifVars, lorVars>>
SpecArgv == InitArgv /\ [][NextArgv]_vars

InitMse == MseInit /\ PartIdle /\ DistIdle /\ ArgvIdle /\ SigIdle /\ KerIdle /\ BifIdle /\ LorIdle
NextMse == MseCall /\ UNCHANGED <<partVars, distVars, argvVars, sigVars, kerVars, bifVars, lorVars>>
SpecMse == InitMse /\ [][NextMse]_vars

InitSignals == SigInit /\ PartIdle /\ DistIdle /\ ArgvIdle /\ MseIdle /\ KerIdle /\ BifIdle /\ LorIdle
NextSignals ==
    /\ \/ WashOut
       \/ CaptureY0
       \/ TrialBuild
       \/ TrialReset
       \/ TrialRun
       \/ TrialRecord
    /\ UNCHANGED <<partVars, distVars, argvVars, mseVars, kerVars, bifVars, lorVars>>
SpecSignals == InitSignals /\ [][NextSignals]_vars

InitKernel == KerInit /\ DistIdle /\ ArgvIdle /\ MseIdle /\ SigIdle /\ BifIdle /\ LorIdle
NextKernel ==
    /\ \/ PartPop /\ UNCHANGED kerVars
       \/ Simulate
       \/ Extract
       \/ Covariance
       \/ Mean
       \/ Invert
       \/ Weights
       \/ Evaluate
    /\ UNCHANGED <<distVars, argvVars, mseVars, sigVars, bifVars, lorVars>>
SpecKernel == InitKernel /\ [][NextKernel]_vars

InitBifurcation ==
    ArgvInit /\ BifInit /\ PartIdle /\ DistIdle /\ MseIdle /\ SigIdle /\ KerIdle /\ LorIdle
NextBifurcation ==
    /\ \/ ArgvStep /\ UNCHANGED bifVars
       \/ BifRun
       \/ BifPlot
    /\ UNCHANGED <<partVars, distVars, mseVars, sigVars, kerVars, lorVars>>
SpecBifurcation == InitBifurcation /\ [][NextBifurcation]_vars

\* The interpreter keeps running the call, and a draw that the loop accepts
\* is not withheld for ever while the loop waits for one.
InitLorentzian ==
    LorInit /\ PartIdle /\ DistIdle /\ ArgvIdle /\ MseIdle /\ SigIdle /\ KerIdle /\ BifIdle
NextLorentzian ==
    /\ \/ LorDraw
       \/ LorRedraw
       \/ LorStore
       \/ LorReturn
    /\ UNCHANGED <<partVars, distVars, argvVars, mseVars, sigVars, kerVars, bifVars>>
SpecLorentzian ==
    /\ InitLorentzian
    /\ [][NextLorentzian]_vars
    /\ WF_vars(NextLorentzian)
    /\ SF_vars(LorRedrawInRange /\ UNCHANGED <<partVars, distVars, argvVars, mseVars,
                                               sigVars, kerVars, bifVars>>)

(***************************************************************************)
(* C4: after the removal loop, train_trials and test_trials partition the  *)
(* trial indices 0..n_stims-1: they are disjoint, neither holds an index   *)
(* twice, and together they hold every index, for every n_stims >= 1 and   *)
(* every stride n_tests >= 1.                                              *)
(***************************************************************************)
C4_Partition ==
    part_pc = "done" =>
        /\ SeqToSet(train_trials) \cap SeqToSet(test_trials) = {}
        /\ NoDuplicates(train_trials)
        /\ NoDuplicates(test_trials)
        /\ SeqToSet(train_trials) \cup SeqToSet(test_trials) = 0..(n_stims - 1)

C4_Witness ==
    /\ part_pc = "done"
    /\ n_stims >= 5
    /\ n_tests = 2
    /\ Len(test_trials) >= 3
    /\ Len(train_trials) >= 2

(***************************************************************************)
(* C9: dist raises ValueError for every method name other than "inverse"   *)
(* and "exp", whatever x is (x <= 0 included); for the two valid names it  *)
(* does not raise, and returns zero_val when x <= 0.                       *)
(***************************************************************************)
C9_Dist ==
    dist_pc = "done" =>
        /\ dist_method \notin {"inverse", "exp"} =>
               dist_result = [kind |-> "raise", exc |-> "ValueError"]
        /\ dist_method \in {"inverse", "exp"} =>
               /\ dist_result.kind = "return"
               /\ dist_x <= 0 => dist_result.val = dist_zero_val

C9_Witness ==
    /\ dist_pc = "done"
    /\ dist_method = "gauss"
    /\ dist_x <= 0
    /\ dist_result.kind = "raise"

(***************************************************************************)
(* C10: auto_dir is the single positional argument when one is given and   *)
(* it is well formed, and the hardcoded default when the argument is       *)
(* omitted (sys.argv holds only the script name) or malformed, where the   *)
(* script takes a path that contains ".py" as malformed; the step fails    *)
(* for no command line.                                                    *)
(***************************************************************************)
C10_AutoDir ==
    argv_pc = "done" =>
        /\ auto_dir.kind = "return"
        /\ Len(argv) = 1 => auto_dir.val = DefaultAutoDir
        /\ Len(argv) = 2 =>
               auto_dir.val = IF StrContains(argv[2], DotPy)
                              THEN DefaultAutoDir ELSE argv[2]

C10_Witness ==
    /\ argv_pc = "done"
    /\ Len(argv) = 2
    /\ argv[2] = <<"/", "a">>
    /\ auto_dir.val = <<"/", "a">>
(***************************************************************************)
(* C7: mse is scale-invariant: for vectors x and y with a positive maximum *)
(* and a positive constant c, mse(c*x, y) = mse(x, y) and                  *)
(* mse(x, c*y) = mse(x, y).                                                *)
(***************************************************************************)
C7_ScaleInvariant ==
    (mse_pc = "done" /\ ArrMax(mse_x).n > 0 /\ ArrMax(mse_y).n > 0) =>
        /\ mse_cxy = mse_xy
        /\ mse_xcy = mse_xy

C7_Witness ==
    /\ mse_pc = "done"
    /\ ArrMax(mse_x).n > 0
    /\ ArrMax(mse_y).n > 0
    /\ mse_c = Rat(1, 2)
    /\ mse_xy.kind = "return"
    /\ mse_xy.val = Rat(1, 2)
    /\ mse_cxy = mse_xy

(***************************************************************************)
(* C8: when the maximum of either argument of mse is zero, mse ends in an  *)
(* exception instead of returning a value.                                 *)
(***************************************************************************)
C8_ZeroMaxRaises ==
    (mse_pc = "done" /\ (ArrMax(mse_x).n = 0 \/ ArrMax(mse_y).n = 0)) =>
        mse_xy.kind = "raise"
(***************************************************************************)
(* C2: every net.run of a trial is immediately preceded by net.reset(y0),  *)
(* with the same y0 for every trial: the state the wash-out run left,      *)
(* captured before the first trial.  So every trial's run starts in y0 and *)
(* none starts in a state another trial's run left, for any number and     *)
(* order of onsets.                                                        *)
(***************************************************************************)
C2_ResetBeforeRun ==
    /\ sig_pc \notin {"idle", "washout", "capture"} =>
           y0 = NetAfterRun(NetInitial, init_steps)
    /\ \A k \in 2..Len(net_calls) :
           net_calls[k].op = "run" =>
               /\ net_calls[k - 1].op = "reset"
               /\ net_calls[k - 1].state = y0
               /\ net_calls[k].pre = y0

C2_Witness ==
    /\ sig_pc = "done"
    /\ Len(stim_onsets) = 2
    /\ stim_onsets[1] > stim_onsets[2]
    /\ Len(net_calls) = 5
    /\ net_calls[5].op = "run"
    /\ net_calls[5].pre = y0

(***************************************************************************)
(* C3: for every trial, whatever its onset, the signal matrix has N        *)
(* channel rows and exactly steps = round(cycle_steps / sr) time columns,  *)
(* and the down-sampled input trace has exactly steps entries (for         *)
(* sampling strides sr <= cycle_steps).                                    *)
(***************************************************************************)
C3_Shapes ==
    \A i \in 1..Len(signals) :
        /\ Len(signals[i]) = N
        /\ \A c \in 1..N : Len(signals[i][c]) = Round(cycle_steps, sr)
        /\ Len(inputs[i]) = Round(cycle_steps, sr)

C3_Witness ==
    /\ sig_pc = "done"
    /\ Len(signals) = 2
    /\ Len(inputs) = 2
    /\ stim_onsets[1] # stim_onsets[2]
    /\ sr = 2
    /\ cycle_steps = 3
    /\ Len(obs) > Round(cycle_steps, sr)

(***************************************************************************)
(* C6 as stated: one waveform per onset, each a matrix with cycle_steps    *)
(* rows and N columns that before smoothing is alpha in the rows           *)
(* onset .. onset+stim_width-1 of the columns inp_indices and zero         *)
(* elsewhere.                                                              *)
(***************************************************************************)
PulseAt(w, i, lastRow) ==
    \A t \in DOMAIN w : \A c \in 1..N :
        w[t][c] = IF /\ stim_onsets[i] <= t - 1
                     /\ t - 1 <= lastRow
                     /\ (c - 1) \in SeqToSet(inp_indices)
                  THEN alpha ELSE 0

C6_CycleLengthRows ==
    sig_pc = "done" =>
        /\ Len(waveforms) = Len(stim_onsets)
        /\ \A i \in 1..Len(waveforms) :
               /\ Len(waveforms[i]) = cycle_steps
               /\ \A t \in DOMAIN waveforms[i] : Len(waveforms[i][t]) = N
               /\ PulseAt(waveforms[i], i, stim_onsets[i] + stim_width - 1)

(***************************************************************************)
(* C6 amended: one waveform per onset, each a matrix with                  *)
(* onset + cycle_steps rows and N columns that before smoothing is alpha   *)
(* in the rows onset .. onset+stim_width-1 (as far as the matrix has those *)
(* rows) of the columns inp_indices and zero elsewhere.                    *)
(***************************************************************************)
C6_OnsetPlusCycleRows ==
    sig_pc = "done" =>
        /\ Len(waveforms) = Len(stim_onsets)
        /\ \A i \in 1..Len(waveforms) :
               /\ Len(waveforms[i]) = stim_onsets[i] + cycle_steps
               /\ \A t \in DOMAIN waveforms[i] : Len(waveforms[i][t]) = N
               /\ PulseAt(waveforms[i], i,
                          Min(stim_onsets[i] + stim_width, stim_onsets[i] + cycle_steps) - 1)

C6_Witness ==
    /\ sig_pc = "done"
    /\ stim_onsets = <<2, 1>>
    /\ cycle_steps = 3
    /\ stim_width = 2
    /\ Len(waveforms) = 2
    /\ Len(waveforms[1]) = 5
    /\ waveforms[1][3][inp_indices[1] + 1] = alpha
    /\ waveforms[1][4][inp_indices[1] + 1] = alpha
    /\ waveforms[1][5][inp_indices[1] + 1] = 0
(***************************************************************************)
(* C1: K, G and w depend only on the training trials: two runs with the    *)
(* same training signals, which differ only in the signals of the test     *)
(* trials or in the targets, compute the same K, G and w.                  *)
(***************************************************************************)
SameTraining ==
    \A idx \in SeqToSet(train_trials) :
        runs[1].signals[idx + 1] = runs[2].signals[idx + 1]

C1_NoLeakage ==
    (ker_pc \in {"evaluate", "done"} /\ SameTraining) =>
        /\ runs[1].K = runs[2].K
        /\ runs[1].G = runs[2].G
        /\ runs[1].w = runs[2].w

C1_Witness ==
    /\ ker_pc = "done"
    /\ SameTraining
    /\ \A idx \in SeqToSet(test_trials) :
           runs[1].signals[idx + 1] # runs[2].signals[idx + 1]
    /\ runs[1].targets # runs[2].targets
    /\ runs[1].train_signals[1] # runs[1].train_signals[2]
    /\ runs[1].K[1][1] # Zero
    /\ runs[1].K = runs[2].K

(***************************************************************************)
(* C5: for every target and every test trial, mses[target][trial] is the   *)
(* mean squared difference between the max-normalized target and the       *)
(* max-normalized reconstructed trace test_predictions[target][trial].     *)
(***************************************************************************)
C5_MseOfPrediction ==
    \A r \in Runs :
        \A ti \in 1..Len(runs[r].mses) :
            \A k \in 1..Len(runs[r].mses[ti]) :
                runs[r].mses[ti][k] =
                    mse(Array1(runs[r].targets[ti]),
                        Array1(runs[r].test_predictions[ti][k]))

(***************************************************************************)
(* C11: an onset for which onset + cycle_steps exceeds the total simulated *)
(* length (one cycle per trial: len(stim_onsets) * cycle_steps) raises a   *)
(* configuration error before the simulator is invoked for that trial: no  *)
(* net.reset and no net.run is issued for it.  The calls of trial i are    *)
(* the entries 2i and 2i+1 of net_calls (entry 1 is the wash-out run).     *)
(***************************************************************************)
TotalLength == Len(stim_onsets) * cycle_steps

C11_OutOfRangeRaises ==
    \A i \in 1..Len(stim_onsets) :
        stim_onsets[i] + cycle_steps > TotalLength => Len(net_calls) < 2 * i

(***************************************************************************)
(* C12: for every non-empty list of training signals of equal shape, s_var *)
(* (the mean over the training trials of s_i - s_mean) is the zero matrix  *)
(* in exact arithmetic, so G = s_var.T @ w is the zero matrix and the      *)
(* training-set distortion G @ target is the zero vector for every target. *)
(***************************************************************************)
ZeroMatrix(rows, cols) == [i \in 1..rows |-> [j \in 1..cols |-> Zero]]

C12_ZeroDistortion ==
    \A r \in DOMAIN runs :
        /\ ker_pc \in {"invert", "weights", "evaluate", "done"} =>
               /\ runs[r].train_signals # <<>>
               /\ runs[r].s_var = ZeroMatrix(N, KernelSteps)
        /\ ker_pc \in {"evaluate", "done"} =>
               runs[r].G = ZeroMatrix(KernelSteps, KernelSteps)
        /\ \A t \in DOMAIN runs[r].train_distortions :
               runs[r].train_distortions[t] = [k \in 1..KernelSteps |-> Zero]

C12_Witness ==
    /\ ker_pc = "done"
    /\ Len(runs[2].train_distortions) = Len(runs[2].targets)
    /\ Len(runs[2].train_signals) >= 2
    /\ runs[2].train_signals[1] # runs[2].train_signals[2]
    /\ runs[2].s_mean # ZeroMatrix(N, KernelSteps)
    /\ runs[2].K # ZeroMatrix(KernelSteps, KernelSteps)
    /\ runs[2].targets[1] # runs[2].targets[2]

(***************************************************************************)
(* C13: in each of the three bifurcation scripts the a.run calls form a    *)
(* well-formed dependency chain: every run name is unique within the       *)
(* script, every origin (given as a returned continuation object or as a   *)
(* name string) refers to a run issued earlier, no origin variable is read *)
(* before an a.run has bound it, and every name passed to                  *)
(* plot_continuation was created by an earlier run.                        *)
(***************************************************************************)
C13_WellFormedChain ==
    /\ bif_exc = "none"
    /\ \A j, k \in DOMAIN conts : j # k => conts[j].name # conts[k].name
    /\ \A k \in DOMAIN conts :
           \/ k = 1 /\ conts[k].origin = ""
           \/ \E j \in 1..(k - 1) : conts[j].name = conts[k].origin
    /\ \A p \in DOMAIN plots :
           \E j \in 1..plots[p].issued : conts[j].name = plots[p].cont

C13_Witness ==
    /\ script = "fs"
    /\ bif_pc = Len(ProgramFs) + 1
    /\ Len(conts) = 5
    /\ conts[3] = [name |-> "I:1", origin |-> "D:1"]
    /\ conts[4] = [name |-> "I:1:lc", origin |-> "I:1"]
    /\ conts[5] = [name |-> "D/I:hb1", origin |-> "I:1"]
    /\ plots = <<[cont |-> "D/I:hb1", issued |-> 5]>>

(***************************************************************************)
(* C14: lorentzian(n, eta, delta, lb, ub) returns exactly n samples, each  *)
(* strictly greater than lb and strictly less than ub (a draw equal to lb  *)
(* or ub is rejected and redrawn).  When lb < ub the call returns,         *)
(* provided a draw inside the bounds eventually occurs; when lb >= ub and  *)
(* n >= 1 it never returns.                                                *)
(***************************************************************************)
C14_Returned ==
    lor_pc = "done" =>
        /\ Len(lor_result) = lor_n
        /\ \A k \in DOMAIN lor_result :
               lor_lb < lor_result[k] /\ lor_result[k] < lor_ub
        /\ ~(lor_lb >= lor_ub /\ lor_n >= 1)

C14_Lorentzian ==
    /\ []C14_Returned
    /\ (lor_pc = "for" /\ lor_i = 0 /\ lor_lb < lor_ub) ~> (lor_pc = "done")

C14_Witness ==
    /\ lor_pc = "done"
    /\ lor_n = 2
    /\ lor_redrawn
    /\ Len(lor_result) = 2
    /\ lor_result[1] # lor_result[2]

====
